---------------------------- MODULE Spec2Model ----------------------------
(***************************************************************************)
(* Course_Generator: the course-generation run (plan_course, then the      *)
(* generate_content / review_content loop), the lesson-generation run,     *)
(* the use case and the HTTP handlers around them, and the domain          *)
(* constructors, modelled from the Python sources.                         *)
(*                                                                         *)
(* Conventions.  A Python str is a sequence of string tokens (an f-string  *)
(* is the concatenation of its pieces, "" is the empty sequence).  An      *)
(* Optional value is a sequence of length 0 (None) or 1.  A Python object  *)
(* reference into the course is the position of the object (module index,  *)
(* lesson index); dataclass equality is value equality of the records.     *)
(***************************************************************************)
EXTENDS Integers, Sequences, FiniteSets, TLC

VARIABLES
    kind,               \* which request is served: "course" or "lesson"
    pc,                 \* node the compiled graph runs next, "END" or "raised"
    topic,              \* state["topic"]
    course_structure,   \* state["course_structure"]: Optional Course
    current_module,     \* state["current_module"]: Optional reference (module index)
    current_lesson,     \* state["current_lesson"]: Optional reference <<module, lesson>>
    validation_errors,  \* state["validation_errors"]
    is_complete,        \* state["is_complete"]
    raised,             \* str(e) of the exception that left the graph, <<>> if none
    capFailure,         \* text of the failure the generation capability raised, <<>> if none
    result,             \* outcome of the pipeline call (execute / generate_lesson)
    response,           \* the HTTP response of the route handler
    genLog,             \* lessons filled by the generate_content invocations, in order
    reviewLog,          \* lessons evaluated by the review_content invocations, in order
    verdicts,           \* is_approved of every ReviewFeedback received, in order
    wstate,             \* the WorkflowState of a lesson run
    trace,              \* nodes of the lesson graph that were run, in order
    candidate,          \* arguments handed to a domain constructor or to an agent's process
    built,              \* what the constructor made of them
    llmCalls,           \* calls of the generation capability made so far, in order
    outputs,            \* what the process calls on `candidate` did, in order
    runs                \* the pipeline states of the runs served concurrently

vars == << kind, pc, topic, course_structure, current_module, current_lesson,
           validation_errors, is_complete, raised, capFailure, result, response,
           genLog, reviewLog, verdicts, wstate, trace, candidate, built,
           llmCalls, outputs, runs >>

courseVars == << course_structure, current_module, current_lesson, validation_errors,
                 is_complete, genLog, reviewLog, verdicts >>
lessonVars == << wstate, trace >>
entityVars == << candidate, built >>
agentVars == << llmCalls, outputs >>

(***************************************************************************)
(* Bounds of the model.                                                    *)
(***************************************************************************)
MaxCourseLessons == 4   \* lessons of a planned course, over all its modules

\* generate_content invocations a run is followed for: one more than any course needs
MaxGenerate == MaxCourseLessons + 1

MaxOptionsTried == 6    \* longest options list handed to QuizQuestion
MaxAnswerTried == 6     \* largest correct_answer handed to QuizQuestion
MaxItemsTried == 6      \* longest list handed to LessonContent
MaxDurationTried == 121 \* largest estimated_duration_minutes handed to LessonContent
MaxQuestionsReturned == 3 \* most questions the capability returns to the quiz creator

(***************************************************************************)
(* Optional values and strings.                                            *)
(***************************************************************************)
None == << >>
Some(v) == << v >>
Val(o) == o[1]

NoText == << >>
Truthy(s) == s # << >>              \* Python truthiness of a str, list or Optional

\* str.__contains__ for a one-token needle
Contains(msg, text) == \E i \in 1..Len(msg) : << msg[i] >> = text

\* list.index(x): the first position whose element EQUALS x
IndexOf(list, x) ==
    CHOOSE i \in 1..Len(list) : list[i] = x /\ \A j \in 1..(i - 1) : list[j] # x

(***************************************************************************)
(* Inputs: request topics and what the generation capability can return.   *)
(***************************************************************************)
Topics == { << >>, << "Python" >> }
ModuleTitles == { << "A" >>, << "B" >> }
Descriptions == { << "d" >> }
ErrorTexts == { << "timeout" >>, << "quota" >> }
Audiences == { "beginner", "intermediate", "advanced" }
Contexts == { None, Some(<< "intro" >>) }

\* state.py ModulePlan; num_lessons has ge=1
ModulePlans ==
    [ title : ModuleTitles, description : Descriptions,
      learning_objectives : { << "o1" >> }, num_lessons : 1..MaxCourseLessons ]

\* state.py CoursePlan.modules has min_items=1 (course_title, course_description are never read)
RECURSIVE PlanLessons(_)
PlanLessons(plan) ==
    IF plan = << >> THEN 0 ELSE Head(plan).num_lessons + PlanLessons(Tail(plan))

CoursePlans ==
    { plan \in UNION { [ 1..n -> ModulePlans ] : n \in 1..MaxCourseLessons } :
        PlanLessons(plan) <= MaxCourseLessons }

\* state.py LessonContent, the content generator's output
GeneratedContents ==
    { [ title |-> << "T" >>, summary |-> << "s1" >>,
        objectives |-> << "g1" >>, key_points |-> << "k1" >> ],
      [ title |-> << "T" >>, summary |-> << "s2" >>,
        objectives |-> << "g2" >>, key_points |-> << "k2" >> ] }

\* state.py ReviewFeedback
ReviewFeedbacks ==
    [ is_approved : BOOLEAN, feedback : { << "fb" >> }, suggestions : { << >> } ]

(***************************************************************************)
(* lesson_content_workflow generate_lesson: the initial WorkflowState.     *)
(***************************************************************************)
InitialWorkflowState(t, audience, ctx) ==
    [ topic |-> t, target_audience |-> audience, context |-> ctx,
      validated_topic |-> None, learning_objectives |-> None,
      content_sections |-> None, examples |-> None, quiz_questions |-> None,
      lesson |-> None,
      metadata |-> [ workflow_version |-> "1.0.0", model |-> "gpt-4" ],
      errors |-> << >> ]

(***************************************************************************)
(* domain/entities/lesson.py: construction of a QuizQuestion from keyword  *)
(* arguments.  An argument that is not given is None.                      *)
(***************************************************************************)
NoCandidate == [ question |-> None, options |-> None, correct_answer |-> None,
                 explanation |-> None ]
NotBuilt == [ done |-> FALSE, instance |-> None ]

\* options: List[str] = Field(..., min_items=3, max_items=5)
QuizMinOptions == 3
QuizMaxOptions == 5

OptionLists == { [ i \in 1..n |-> "option " \o ToString(i) ] : n \in 0..MaxOptionsTried }

QuizQuestionArguments ==
    [ question : { None, Some(<< "q" >>) },
      options : { None } \cup { Some(o) : o \in OptionLists },
      correct_answer : { None } \cup { Some(a) : a \in -1..MaxAnswerTried },
      explanation : { None, Some(<< "because" >>) } ]

\* the validation pydantic runs in QuizQuestion(**kwargs)
QuizQuestionAccepted(kwargs) ==
    /\ \A f \in DOMAIN kwargs : Truthy(kwargs[f])           \* every field is required
    /\ Len(Val(kwargs.options)) >= QuizMinOptions
    /\ Len(Val(kwargs.options)) <= QuizMaxOptions
    /\ Val(kwargs.correct_answer) >= 0                       \* Field(..., ge=0)

QuizQuestion(kwargs) ==
    IF QuizQuestionAccepted(kwargs)
    THEN [ done |-> TRUE,
           instance |-> Some([ f \in DOMAIN kwargs |-> Val(kwargs[f]) ]) ]
    ELSE [ done |-> TRUE, instance |-> None ]                \* ValidationError

(***************************************************************************)
(* domain/entities/lesson.py: construction of a LessonContent.  The items  *)
(* of its lists are valid entities; an argument that is not given is None. *)
(***************************************************************************)
LessonMinObjectives == 1
LessonMaxObjectives == 5
LessonMinExamples == 1
LessonMaxExamples == 3
LessonMinQuiz == 1
LessonMaxQuiz == 5
LessonMinDuration == 5
LessonMaxDuration == 120

\* a list of n entities named after `what`
Items(what, n) == [ i \in 1..n |-> << what, ToString(i) >> ]

LessonContentArguments ==
    [ topic : { None, Some(<< "Python" >>) },
      difficulty : { None },
      learning_objectives : { Some(Items("objective", n)) : n \in 0..MaxItemsTried },
      content_sections : { Some(Items("section", 2)) },
      examples : { Some(Items("example", n)) : n \in 0..MaxItemsTried },
      quiz_questions : { Some(Items("question", n)) : n \in 0..MaxItemsTried },
      summary : { Some(<< "sum" >>) },
      estimated_duration_minutes : { None } \cup { Some(d) : d \in 0..MaxDurationTried } ]

InRange(n, lo, hi) == lo <= n /\ n <= hi

\* a LessonContent that takes up to five examples, as the examples stage's output does
LessonContentAccepted_FiveExamples(kwargs) ==
    /\ \A f \in DOMAIN kwargs \ { "difficulty" } : Truthy(kwargs[f])
    /\ InRange(Len(Val(kwargs.learning_objectives)), LessonMinObjectives, LessonMaxObjectives)
    /\ InRange(Len(Val(kwargs.examples)), LessonMinExamples, LessonMaxObjectives)
    /\ InRange(Len(Val(kwargs.quiz_questions)), LessonMinQuiz, LessonMaxQuiz)
    /\ InRange(Val(kwargs.estimated_duration_minutes), LessonMinDuration, LessonMaxDuration)

\* the validation pydantic runs in LessonContent(**kwargs); difficulty has a default
LessonContentAccepted(kwargs) ==
    /\ \A f \in DOMAIN kwargs \ { "difficulty" } : Truthy(kwargs[f])
    /\ InRange(Len(Val(kwargs.learning_objectives)), LessonMinObjectives, LessonMaxObjectives)
    /\ InRange(Len(Val(kwargs.examples)), LessonMinExamples, LessonMaxExamples)
    /\ InRange(Len(Val(kwargs.quiz_questions)), LessonMinQuiz, LessonMaxQuiz)
    /\ InRange(Val(kwargs.estimated_duration_minutes), LessonMinDuration, LessonMaxDuration)

LessonContent(kwargs) ==
    IF LessonContentAccepted(kwargs)
    THEN [ done |-> TRUE,
           instance |->
             Some([ f \in DOMAIN kwargs |->
                      IF Truthy(kwargs[f]) THEN Val(kwargs[f]) ELSE "beginner" ]) ]
    ELSE [ done |-> TRUE, instance |-> None ]                \* ValidationError

(***************************************************************************)
(* workflow.py generate_course: the initial CourseState.                   *)
(***************************************************************************)
Pending == [ kind |-> "pending", value |-> None, msg |-> NoText ]
NotSent == [ sent |-> FALSE, status |-> 0, success |-> FALSE,
             detail |-> NoText, error |-> NoText, payload |-> None ]

CourseInit ==
    /\ kind = "course"
    /\ pc = "plan_course"
    /\ topic \in Topics
    /\ course_structure = None
    /\ current_module = None
    /\ current_lesson = None
    /\ validation_errors = << >>
    /\ is_complete = FALSE
    /\ raised = NoText
    /\ capFailure = NoText
    /\ result = Pending
    /\ response = NotSent
    /\ genLog = << >>
    /\ reviewLog = << >>
    /\ verdicts = << >>
    /\ wstate = InitialWorkflowState(NoText, "beginner", None)
    /\ trace = << >>
    /\ candidate = NoCandidate
    /\ built = NotBuilt
    /\ llmCalls = << >>
    /\ runs = << >>
    /\ outputs = << >>

\* an exception leaves the node: the graph run is abandoned
Raise(text) ==
    /\ pc' = "raised"
    /\ raised' = text

\* one generate_structured call of a course agent: the output model asked for and
\* the instance returned (None when the call raised)
CourseCall(output_model, returned) == [ schema |-> output_model, returned |-> returned ]

\* the generation capability fails with `text`
CapabilityFails(text) ==
    /\ Raise(text)
    /\ capFailure' = text

(***************************************************************************)
(* agents.py PlannerAgent.process, followed by the edge to                 *)
(* generate_content.                                                       *)
(***************************************************************************)
PlaceholderKeyPoints == 3

PlannedLesson(module_plan, j) ==
    [ title |-> << "Lesson ", ToString(j) >>,
      summary |-> << "Summary for lesson ", ToString(j), " of " >> \o module_plan.title,
      objectives |-> module_plan.learning_objectives,
      key_points |-> [ k \in 1..PlaceholderKeyPoints |-> "Key point " \o ToString(k) ] ]

\* a planner that gives every module two lessons, whatever the plan says
PlannedModule_FixedSize(module_plan) ==
    [ title |-> module_plan.title,
      description |-> module_plan.description,
      lessons |-> [ j \in 1..2 |-> PlannedLesson(module_plan, j) ] ]

PlannedModule(module_plan) ==
    [ title |-> module_plan.title,
      description |-> module_plan.description,
      lessons |-> [ j \in 1..module_plan.num_lessons |-> PlannedLesson(module_plan, j) ] ]

PlannedCourse(t, plan) ==
    [ topic |-> t, modules |-> [ i \in 1..Len(plan) |-> PlannedModule(plan[i]) ] ]

\* a planner without the check of line 35
TopicMissing_Unchecked(t) == FALSE

\* line 35: not state.get("topic")
TopicMissing(t) == ~Truthy(t)

PlanCourse ==
    /\ kind = "course"
    /\ pc = "plan_course"
    /\ \/ /\ TopicMissing(topic)
          /\ Raise(<< "Topic is required for planning" >>)
          /\ UNCHANGED << course_structure, capFailure, llmCalls >>
       \/ /\ ~TopicMissing(topic)
          /\ \E text \in ErrorTexts : CapabilityFails(text)
          /\ llmCalls' = Append(llmCalls, CourseCall("CoursePlan", None))
          /\ UNCHANGED course_structure
       \/ /\ ~TopicMissing(topic)
          /\ \E plan \in CoursePlans :
                /\ course_structure' = Some(PlannedCourse(topic, plan))
                /\ llmCalls' = Append(llmCalls, CourseCall("CoursePlan", Some(plan)))
          /\ pc' = "generate_content"
          /\ UNCHANGED << raised, capFailure >>
    /\ UNCHANGED << runs, kind, topic, current_module, current_lesson, validation_errors,
                    is_complete, result, response, genLog, reviewLog, verdicts,
                    lessonVars, entityVars, outputs >>

(***************************************************************************)
(* agents.py ContentGeneratorAgent.process, followed by the conditional    *)
(* edge should_review of workflow.py.                                      *)
(***************************************************************************)
\* a generator that also takes the title of the generated content
FillLesson_Retitled(lesson, content) ==
    [ lesson EXCEPT !.title = content.title,
                    !.summary = content.summary,
                    !.objectives = content.objectives,
                    !.key_points = content.key_points ]

\* lines 152-154: the lesson object is updated in place
FillLesson(lesson, content) ==
    [ lesson EXCEPT !.summary = content.summary,
                    !.objectives = content.objectives,
                    !.key_points = content.key_points ]

\* the position of the module the cursor moves on from: course.modules.index(current_module)
ModuleIndex(course, m) == IndexOf(course.modules, course.modules[m])

\* current_module.lessons.index(lesson)
LessonIndex(course, m, ml) ==
    IndexOf(course.modules[m].lessons, course.modules[ml[1]].lessons[ml[2]])

\* workflow.py should_review
ShouldReview(cl) == IF Truthy(cl) THEN "review_content" ELSE "generate_content"

\* a generator that reports completion as soon as a module's last lesson is filled
AdvanceCursor_CompletesEarly(course, m, ml) ==
    LET li == LessonIndex(course, m, ml)
        mi == ModuleIndex(course, m)
    IN  IF li < Len(course.modules[m].lessons)
        THEN /\ current_lesson' = Some(<< m, li + 1 >>)
             /\ current_module' = Some(m)
             /\ UNCHANGED is_complete
        ELSE IF mi < Len(course.modules)
        THEN /\ current_module' = Some(mi + 1)
             /\ current_lesson' = Some(<< mi + 1, 1 >>)
             /\ is_complete' = TRUE
        ELSE /\ is_complete' = TRUE
             /\ current_module' = Some(m)
             /\ current_lesson' = Some(ml)

\* a generator that leaves the lesson cursor unset when it moves to the next module
AdvanceCursor_ClearsLesson(course, m, ml) ==
    LET li == LessonIndex(course, m, ml)
        mi == ModuleIndex(course, m)
    IN  IF li < Len(course.modules[m].lessons)
        THEN /\ current_lesson' = Some(<< m, li + 1 >>)
             /\ current_module' = Some(m)
             /\ UNCHANGED is_complete
        ELSE IF mi < Len(course.modules)
        THEN /\ current_module' = Some(mi + 1)
             /\ current_lesson' = None
             /\ UNCHANGED is_complete
        ELSE /\ is_complete' = TRUE
             /\ current_module' = Some(m)
             /\ current_lesson' = Some(ml)

\* lines 156-168 on the course `course` whose lesson under the cursor was just filled
AdvanceCursor(course, m, ml) ==
    LET li == LessonIndex(course, m, ml)
        mi == ModuleIndex(course, m)
    IN  IF li < Len(course.modules[m].lessons)
        THEN /\ current_lesson' = Some(<< m, li + 1 >>)
             /\ current_module' = Some(m)
             /\ UNCHANGED is_complete
        ELSE IF mi < Len(course.modules)
        THEN /\ current_module' = Some(mi + 1)
             /\ current_lesson' =
                    IF Truthy(course.modules[mi + 1].lessons)
                    THEN Some(<< mi + 1, 1 >>) ELSE None
             /\ UNCHANGED is_complete
        ELSE /\ is_complete' = TRUE
             /\ current_module' = Some(m)
             /\ current_lesson' = Some(ml)

GenerateContent ==
    /\ kind = "course"
    /\ pc = "generate_content"
    /\ Len(genLog) < MaxGenerate
    /\ IF ~Truthy(course_structure)
       THEN /\ Raise(<< "Course structure is required for content generation" >>)
            /\ UNCHANGED << course_structure, current_module, current_lesson,
                            is_complete, capFailure, genLog, llmCalls >>
       ELSE LET course == Val(course_structure)
                \* lines 120-127: start at the first module and its first lesson
                m == IF Truthy(current_module) THEN Val(current_module) ELSE 1
                ml == IF Truthy(current_lesson) THEN Val(current_lesson) ELSE << m, 1 >>
            IN  \/ /\ \E text \in ErrorTexts : CapabilityFails(text)
                   /\ llmCalls' = Append(llmCalls, CourseCall("LessonContent", None))
                   /\ UNCHANGED << course_structure, current_module, current_lesson,
                                   is_complete, genLog >>
                \/ \E content \in GeneratedContents :
                      LET filled ==
                              [ course EXCEPT
                                  !.modules[ml[1]].lessons[ml[2]] =
                                      FillLesson(course.modules[ml[1]].lessons[ml[2]], content) ]
                      IN  /\ course_structure' = Some(filled)
                          /\ llmCalls' =
                                 Append(llmCalls, CourseCall("LessonContent", Some(content)))
                          /\ genLog' = Append(genLog, ml)
                          /\ AdvanceCursor(filled, m, ml)
                          /\ pc' = ShouldReview(current_lesson')
                          /\ UNCHANGED << raised, capFailure >>
    /\ UNCHANGED << runs, kind, topic, validation_errors, result, response, reviewLog, verdicts,
                    lessonVars, entityVars, outputs >>

(***************************************************************************)
(* agents.py ReviewerAgent.process, followed by the conditional edge       *)
(* should_continue of workflow.py.                                         *)
(***************************************************************************)
\* a reviewer that records a message whatever the verdict
RecordReview_AlwaysAppends(errors, lesson, feedback) ==
    Append(errors, << "Review for " >> \o lesson.title \o << ": " >> \o feedback.feedback)

\* lines 212-217
RecordReview(errors, lesson, feedback) ==
    IF ~feedback.is_approved
    THEN Append(errors, << "Review for " >> \o lesson.title \o << ": " >> \o feedback.feedback)
    ELSE errors

\* workflow.py should_continue
ShouldContinue(complete) == IF complete THEN "END" ELSE "generate_content"

ReviewContent ==
    /\ kind = "course"
    /\ pc = "review_content"
    /\ IF ~Truthy(course_structure)
       THEN /\ Raise(<< "Course structure is required for review" >>)
            /\ UNCHANGED << validation_errors, capFailure, reviewLog, verdicts, llmCalls >>
       ELSE IF ~Truthy(current_lesson)
       THEN /\ pc' = ShouldContinue(is_complete)
            /\ UNCHANGED << validation_errors, raised, capFailure, reviewLog, verdicts,
                            llmCalls >>
       ELSE LET ml == Val(current_lesson)
                lesson == Val(course_structure).modules[ml[1]].lessons[ml[2]]
            IN  \/ /\ \E text \in ErrorTexts : CapabilityFails(text)
                   /\ llmCalls' = Append(llmCalls, CourseCall("ReviewFeedback", None))
                   /\ UNCHANGED << validation_errors, reviewLog, verdicts >>
                \/ \E feedback \in ReviewFeedbacks :
                      /\ validation_errors' = RecordReview(validation_errors, lesson, feedback)
                      /\ llmCalls' =
                             Append(llmCalls, CourseCall("ReviewFeedback", Some(feedback)))
                      /\ reviewLog' = Append(reviewLog, ml)
                      /\ verdicts' = Append(verdicts, feedback.is_approved)
                      /\ pc' = ShouldContinue(is_complete)
                      /\ UNCHANGED << raised, capFailure >>
    /\ UNCHANGED << runs, kind, topic, course_structure, current_module, current_lesson,
                    is_complete, result, response, genLog, lessonVars, entityVars, outputs >>

(***************************************************************************)
(* use_cases/generate_course_content.py GenerateCourseContentUseCase.      *)
(***************************************************************************)
Return(v) == [ kind |-> "return", value |-> Some(v), msg |-> NoText ]
RaiseError(text) == [ kind |-> "raise", value |-> None, msg |-> text ]

\* a _format_course that lists the modules last first
FormatCourse_Reversed(course) ==
    [ topic |-> course.topic,
      modules |->
        [ i \in 1..Len(course.modules) |->
            LET module == course.modules[Len(course.modules) + 1 - i]
            IN  [ title |-> module.title,
                  description |-> IF Truthy(module.description) THEN module.description
                                  ELSE << "Module on " >> \o module.title,
                  lessons |->
                    [ j \in 1..Len(module.lessons) |->
                        [ title |-> module.lessons[j].title,
                          summary |-> module.lessons[j].summary,
                          objectives |-> module.lessons[j].objectives,
                          key_points |-> module.lessons[j].key_points ] ] ] ] ]

\* _format_course, lines 51-70 (the caller has checked that modules is not empty)
FormatCourse(course) ==
    [ topic |-> course.topic,
      modules |->
        [ i \in 1..Len(course.modules) |->
            [ title |-> course.modules[i].title,
              description |->
                  IF Truthy(course.modules[i].description)
                  THEN course.modules[i].description
                  ELSE << "Module on " >> \o course.modules[i].title,
              lessons |->
                [ j \in 1..Len(course.modules[i].lessons) |->
                    [ title |-> course.modules[i].lessons[j].title,
                      summary |-> course.modules[i].lessons[j].summary,
                      objectives |-> course.modules[i].lessons[j].objectives,
                      key_points |-> course.modules[i].lessons[j].key_points ] ] ] ] ]

\* an execute that reports a failure without its cause
ExecuteOutcome_DropsCause(graph_pc, graph_raised, structure) ==
    IF graph_pc = "raised" \/ ~Truthy(structure) \/ ~Truthy(Val(structure).modules)
    THEN RaiseError(<< "Failed to generate course" >>)
    ELSE Return(FormatCourse(Val(structure)))

\* execute, lines 29-44: what the call returns or raises once the graph run is over
ExecuteOutcome(graph_pc, graph_raised, structure) ==
    IF graph_pc = "raised"
    THEN RaiseError(<< "Failed to generate course", ": " >> \o graph_raised)
    ELSE IF ~Truthy(structure)
    THEN RaiseError(<< "Failed to generate course", ": ", "Failed to generate course content" >>)
    ELSE IF ~Truthy(Val(structure).modules)
    THEN RaiseError(<< "Failed to generate course", ": ",
                      "Course must have at least one module" >>)
    ELSE Return(FormatCourse(Val(structure)))

Execute ==
    /\ kind = "course"
    /\ pc \in { "END", "raised" }
    /\ result = Pending
    /\ result' = ExecuteOutcome(pc, raised, course_structure)
    /\ UNCHANGED << runs, kind, pc, topic, raised, capFailure, response,
                    courseVars, lessonVars, entityVars, agentVars >>

\* the course structures a finished graph run can hand back to execute: none,
\* one without modules, or a planned one
FinalStructures(t) ==
    { None, Some(PlannedCourse(t, << >>)) }
        \cup { Some(PlannedCourse(t, plan)) : plan \in CoursePlans }

\* execute at line 32: workflow.generate_course has returned its final state
UseCaseInit ==
    /\ kind = "course"
    /\ pc = "END"
    /\ topic \in Topics
    /\ course_structure \in FinalStructures(topic)
    /\ current_module = None
    /\ current_lesson = None
    /\ validation_errors = << >>
    /\ is_complete = TRUE
    /\ raised = NoText
    /\ capFailure = NoText
    /\ result = Pending
    /\ response = NotSent
    /\ genLog = << >>
    /\ reviewLog = << >>
    /\ verdicts = << >>
    /\ wstate = InitialWorkflowState(NoText, "beginner", None)
    /\ trace = << >>
    /\ candidate = NoCandidate
    /\ built = NotBuilt
    /\ llmCalls = << >>
    /\ runs = << >>
    /\ outputs = << >>

\* the plan behind the course structure that a stage called directly is given
StagePlan ==
    << [ title |-> << "A" >>, description |-> << "d" >>,
         learning_objectives |-> << "o1" >>, num_lessons |-> 2 ] >>

\* the states a course agent's process method is called on directly: any stage,
\* with or without the topic and the course structure the stage needs
StageInit ==
    /\ kind = "course"
    /\ pc \in { "plan_course", "generate_content", "review_content" }
    /\ topic \in Topics
    /\ course_structure \in { None, Some(PlannedCourse(topic, StagePlan)) }
    /\ \E cursor \in { None, Some(<< 1, 1 >>) } :
          /\ current_lesson = IF Truthy(course_structure) THEN cursor ELSE None
          /\ current_module = IF Truthy(current_lesson) THEN Some(1) ELSE None
    /\ validation_errors \in { << >>, << << "Review for ", "Lesson ", "1", ": ", "fb" >> >> }
    /\ is_complete \in BOOLEAN
    /\ raised = NoText
    /\ capFailure = NoText
    /\ result = Pending
    /\ response = NotSent
    /\ genLog = << >>
    /\ reviewLog = << >>
    /\ verdicts = << >>
    /\ wstate = InitialWorkflowState(NoText, "beginner", None)
    /\ trace = << >>
    /\ candidate = NoCandidate
    /\ built = NotBuilt
    /\ llmCalls = << >>
    /\ runs = << >>
    /\ outputs = << >>

(***************************************************************************)
(* interfaces/api/routes/courses.py generate_course.                       *)
(***************************************************************************)
\* a handler that raises HTTPException(500) on failure, as the lesson handler does
CourseResponse_Raises500(outcome) ==
    IF outcome.kind = "return"
    THEN [ sent |-> TRUE, status |-> 200, success |-> TRUE, detail |-> NoText,
           error |-> NoText, payload |-> outcome.value ]
    ELSE [ sent |-> TRUE, status |-> 500, success |-> FALSE,
           detail |-> << "Failed to generate course", ": " >> \o outcome.msg,
           error |-> NoText, payload |-> None ]

\* lines 36-58
CourseResponse(outcome) ==
    IF outcome.kind = "return"
    THEN [ sent |-> TRUE, status |-> 200, success |-> TRUE, detail |-> NoText,
           error |-> NoText, payload |-> outcome.value ]
    ELSE [ sent |-> TRUE, status |-> 200, success |-> FALSE, detail |-> NoText,
           error |-> << "Failed to generate course", ": " >> \o outcome.msg,
           payload |-> None ]

RespondCourse ==
    /\ kind = "course"
    /\ result # Pending
    /\ response = NotSent
    /\ response' = CourseResponse(result)
    /\ UNCHANGED << runs, kind, pc, topic, raised, capFailure, result,
                    courseVars, lessonVars, entityVars, agentVars >>

(***************************************************************************)
(* workflows/lesson_content_workflow: the graph of _build_graph.  Each     *)
(* node is the process method of an agent and is called with the state.    *)
(***************************************************************************)
LessonNodes ==
    << "validate_topic", "generate_objectives", "generate_content",
       "generate_examples", "create_quiz", "assemble_lesson" >>

LessonEntryPoint == "validate_topic"

\* a graph whose examples node is wired straight to the assembler
LessonEdge_SkipsQuiz(node) ==
    CASE node = "validate_topic" -> "generate_objectives"
      [] node = "generate_objectives" -> "generate_content"
      [] node = "generate_content" -> "generate_examples"
      [] node = "generate_examples" -> "assemble_lesson"
      [] node = "create_quiz" -> "assemble_lesson"
      [] node = "assemble_lesson" -> "END"

\* the add_edge calls, lines 108-113
LessonEdge(node) ==
    CASE node = "validate_topic" -> "generate_objectives"
      [] node = "generate_objectives" -> "generate_content"
      [] node = "generate_content" -> "generate_examples"
      [] node = "generate_examples" -> "create_quiz"
      [] node = "create_quiz" -> "assemble_lesson"
      [] node = "assemble_lesson" -> "END"

\* keys of WorkflowState whose type is Optional
OptionalKeys ==
    { "context", "validated_topic", "learning_objectives", "content_sections",
      "examples", "quiz_questions", "lesson" }

\* the Input schema of each agent: the fields without a default
InputRequired(node) ==
    CASE node = "validate_topic" -> { "topic" }
      [] node = "generate_objectives" -> { "topic", "scope" }
      [] node = "generate_content" -> { "topic", "learning_objectives", "scope" }
      [] node = "generate_examples" -> { "topic", "learning_objectives" }
      [] node = "create_quiz" -> { "topic", "learning_objectives" }
      [] node = "assemble_lesson" -> { "topic", "learning_objectives" }

\* the Input schema of each agent: all its fields (none of them is Optional)
InputFields(node) ==
    CASE node = "validate_topic" -> { "topic", "target_audience", "context" }
      [] node = "generate_objectives" ->
            { "topic", "target_audience", "scope", "prerequisites" }
      [] node = "generate_content" ->
            { "topic", "target_audience", "learning_objectives", "scope", "key_terms" }
      [] node = "generate_examples" ->
            { "topic", "target_audience", "learning_objectives", "content_sections",
              "example_types", "num_examples" }
      [] node = "create_quiz" ->
            { "topic", "target_audience", "learning_objectives", "content_sections",
              "num_questions", "question_types", "difficulty" }
      [] node = "assemble_lesson" ->
            { "topic", "target_audience", "learning_objectives", "content_sections",
              "examples", "quiz_questions", "metadata" }

\* XInput(**input_data): a required field is missing, or a field is given as None
InputAccepted(node, input_data) ==
    /\ InputRequired(node) \subseteq DOMAIN input_data
    /\ \A f \in InputFields(node) \cap DOMAIN input_data :
          f \in OptionalKeys => input_data[f] # None

\* names of the fields of each agent's Output schema
OutputFields(node) ==
    CASE node = "validate_topic" ->
            { "original_topic", "refined_topic", "is_valid", "validation_message",
              "suggested_scope", "prerequisites" }
      [] node = "generate_objectives" -> { "objectives", "difficulty", "alignment_note" }
      [] node = "generate_content" -> { "sections", "estimated_duration_minutes", "key_terms" }
      [] node = "generate_examples" -> { "examples", "additional_resources" }
      [] node = "create_quiz" -> { "questions", "answer_key", "assessment_criteria" }
      [] node = "assemble_lesson" -> { "lesson", "metadata" }

\* base_agent.py output_model: the Output schema the agent class is declared with
OutputModel(node) ==
    CASE node = "validate_topic" -> "TopicValidatorOutput"
      [] node = "generate_objectives" -> "LearningObjectivesOutput"
      [] node = "generate_content" -> "LessonBodyOutput"
      [] node = "generate_examples" -> "ExampleGeneratorOutput"
      [] node = "create_quiz" -> "QuizCreatorOutput"
      [] node = "assemble_lesson" -> "LessonAssemblerOutput"

\* what the generation capability can return for the output schema of `node`
CapabilityOutputs(node) ==
    [ OutputFields(node) -> { << "v1" >>, << "v2" >> } ]

\* the runner writes the fields of a node's result that are keys of the state
MergeUpdate(state, update) ==
    [ k \in DOMAIN state |-> IF k \in DOMAIN update THEN update[k] ELSE state[k] ]

\* a runner that runs a node again when it raised
RunLessonNode_Retries(outcome) ==
    /\ trace' = Append(trace, pc)
    /\ IF outcome.raised
       THEN /\ pc' = pc
            /\ raised' = outcome.text
            /\ capFailure' = IF outcome.capability THEN outcome.text ELSE capFailure
            /\ UNCHANGED wstate
       ELSE /\ pc' = LessonEdge(pc)
            /\ wstate' = MergeUpdate(wstate, outcome.update)
            /\ UNCHANGED << raised, capFailure >>

\* one node run by the compiled graph, with `outcome` what the node did
RunLessonNode(outcome) ==
    /\ trace' = Append(trace, pc)
    /\ IF outcome.raised
       THEN /\ Raise(outcome.text)
            /\ capFailure' = IF outcome.capability THEN outcome.text ELSE capFailure
            /\ UNCHANGED wstate
       ELSE /\ pc' = LessonEdge(pc)
            /\ wstate' = MergeUpdate(wstate, outcome.update)
            /\ UNCHANGED << raised, capFailure >>

NodeRaises(text, by_capability) ==
    [ raised |-> TRUE, text |-> text, capability |-> by_capability, update |-> << >> ]
NodeReturns(update) ==
    [ raised |-> FALSE, text |-> NoText, capability |-> FALSE, update |-> update ]

(***************************************************************************)
(* ai_agents/lesson_content/lesson_assembler.py LessonAssemblerNode.       *)
(* An input dictionary is written as the runner state is: a key that is    *)
(* absent is outside the DOMAIN, the value of a key of OptionalKeys is     *)
(* None or Some(value).                                                    *)
(***************************************************************************)
\* dict.get(key, default)
Get(d, key, default) == IF key \in DOMAIN d THEN d[key] ELSE default

\* the dictionary d without the keys of `absent`
Without(d, absent) == [ k \in DOMAIN d \ absent |-> d[k] ]

\* str.lower() on the audiences tried
Lower(a) ==
    CASE a = "Beginner" -> "beginner"
      [] a = "Advanced" -> "advanced"
      [] OTHER -> a

DefaultDuration == 30

\* one result of a process call: what it did, and the capability calls it made
ProcessResult(outcome, calls) == [ outcome |-> outcome, calls |-> calls ]

ObjectiveDicts(n) ==
    [ i \in 1..n |-> [ description |-> << "objective ", ToString(i) >>,
                       key_concept |-> << "concept ", ToString(i) >> ] ]
ExampleDicts(n) ==
    [ i \in 1..n |-> [ title |-> << "example ", ToString(i) >>,
                       description |-> << "d" >>, key_takeaway |-> << "t" >> ] ]
SectionDicts(n) == [ i \in 1..n |-> [ heading |-> << "section ", ToString(i) >> ] ]

\* question dictionaries: a complete one, and one without options
QuestionDicts ==
    { [ question |-> << "q" >>, options |-> << "A", "B", "C" >>, correct_answer |-> 0,
        explanation |-> << "because" >> ],
      [ question |-> << "q" >>, correct_answer |-> 0, explanation |-> << "because" >> ] }

MetadataDicts ==
    { << >> } \cup
    { [ summary |-> << "sum" >>, estimated_duration_minutes |-> d ] : d \in { 4, 5, 120, 121 } }

\* lesson_body.py LessonBodyOutput.sections has min_items=3
SectionsOutMin == 3

AssemblerInputs ==
    { Without(d, absent) :
        d \in [ topic : { << "Python" >> },
                target_audience : { "beginner", "Advanced", "expert" },
                learning_objectives : { Some(ObjectiveDicts(n)) : n \in 0..MaxItemsTried },
                content_sections : { Some(SectionDicts(n)) : n \in { 0, SectionsOutMin } },
                examples : { Some(ExampleDicts(n)) : n \in 0..MaxItemsTried },
                quiz_questions :
                    { Some([ i \in 1..n |-> q ]) : n \in 0..MaxItemsTried, q \in QuestionDicts },
                metadata : MetadataDicts ],
        absent \in { { }, { "topic" }, { "learning_objectives" }, { "examples" },
                     { "quiz_questions" },
                     { "target_audience", "content_sections", "metadata" } } }

\* lines 100-106
LearningObjectiveOf(obj) ==
    [ description |-> Get(obj, "description", NoText),
      key_concept |-> Get(obj, "key_concept", NoText) ]

\* lines 108-115
ExampleOf(ex) ==
    [ title |-> Get(ex, "title", NoText),
      description |-> Get(ex, "description", NoText),
      key_takeaway |-> Get(ex, "key_takeaway", NoText) ]

\* lines 117-125: the keyword arguments of QuizQuestion(...)
QuizQuestionOf(q) ==
    [ question |-> Some(Get(q, "question", NoText)),
      options |-> Some(Get(q, "options", << >>)),
      correct_answer |-> Some(Get(q, "correct_answer", 0)),
      explanation |-> Some(Get(q, "explanation", NoText)) ]

\* lines 128-137: the keyword arguments of LessonContent(...)
AssembledArguments(input_data) ==
    LET given(key) == IF key \in DOMAIN input_data THEN Val(input_data[key]) ELSE << >>
        metadata == Get(input_data, "metadata", << >>)
    IN  [ topic |-> Some(input_data.topic),
          difficulty |-> Some(Lower(Get(input_data, "target_audience", "beginner"))),
          learning_objectives |->
              Some([ i \in 1..Len(given("learning_objectives")) |->
                        LearningObjectiveOf(given("learning_objectives")[i]) ]),
          content_sections |-> Some(given("content_sections")),
          examples |->
              Some([ i \in 1..Len(given("examples")) |-> ExampleOf(given("examples")[i]) ]),
          quiz_questions |->
              Some([ i \in 1..Len(given("quiz_questions")) |->
                        Val(QuizQuestion(QuizQuestionOf(given("quiz_questions")[i])).instance) ]),
          summary |-> Some(Get(metadata, "summary", NoText)),
          estimated_duration_minutes |->
              Some(Get(metadata, "estimated_duration_minutes", DefaultDuration)) ]

\* lines 139-146
AssemblerMetadata ==
    [ generated_at |-> "2023-01-01T00:00:00Z",
      components_used |->
          << "learning_objectives", "content_sections", "examples", "quiz_questions" >>,
      version |-> "1.0.0" ]

\* process, lines 94-146
AssembleLesson(input_data) ==
    IF ~InputAccepted("assemble_lesson", input_data)
    THEN NodeRaises(<< "validation error for the input of ", "assemble_lesson" >>, FALSE)
    ELSE IF \E i \in 1..Len(Val(Get(input_data, "quiz_questions", Some(<< >>)))) :
                ~QuizQuestionAccepted(QuizQuestionOf(Val(input_data.quiz_questions)[i]))
    THEN NodeRaises(<< "validation error for ", "QuizQuestion" >>, FALSE)
    ELSE IF Lower(Get(input_data, "target_audience", "beginner")) \notin Audiences
    THEN NodeRaises(<< "not a valid ", "DifficultyLevel" >>, FALSE)
    ELSE IF ~LessonContentAccepted(AssembledArguments(input_data))
    THEN NodeRaises(<< "validation error for ", "LessonContent" >>, FALSE)
    ELSE NodeReturns([ lesson |-> Val(LessonContent(AssembledArguments(input_data)).instance),
                       metadata |-> AssemblerMetadata ])

\* an assembler that asks the generation capability to polish the lesson's summary
AssemblerOutcomes_Polished(input_data) ==
    LET r == AssembleLesson(input_data)
    IN  IF r.raised THEN { ProcessResult(r, << >>) }
        ELSE { ProcessResult(
                 NodeReturns([ r.update EXCEPT !.lesson.summary = polished ]),
                 << [ schema |-> "LessonAssemblerOutput", kwargs |-> input_data ] >>) :
               polished \in { << "v1" >>, << "v2" >> } }

\* everything a process call of the assembler can do
AssemblerOutcomes(input_data) == { ProcessResult(AssembleLesson(input_data), << >>) }

(***************************************************************************)
(* ai_agents/lesson_content/quiz_creator.py QuizCreatorNode.               *)
(***************************************************************************)
NumQuestionsMin == 1
NumQuestionsMax == 10
DefaultNumQuestions == 3
QuizMinQuestions == 1
QuizMaxQuestions == 10

QuizCreatorInputs ==
    { Without(d, absent) :
        d \in [ topic : { << "Python" >> },
                target_audience : { "beginner" },
                learning_objectives : { Some(ObjectiveDicts(1)) },
                content_sections : { Some(SectionDicts(2)) },
                num_questions : { NumQuestionsMin - 1, NumQuestionsMin, NumQuestionsMax,
                                  NumQuestionsMax + 1 } ],
        absent \in { { }, { "learning_objectives" },
                     { "target_audience", "content_sections", "num_questions" } } }

\* QuizCreatorInput(**input_data), line 119
QuizCreatorInputAccepted(input_data) ==
    /\ InputAccepted("create_quiz", input_data)
    /\ InRange(Get(input_data, "num_questions", DefaultNumQuestions),
               NumQuestionsMin, NumQuestionsMax)

\* lines 122-130: the fields of the validated input, defaults filled in
QuizLlmInput(input_data) ==
    [ topic |-> input_data.topic,
      target_audience |-> Get(input_data, "target_audience", "beginner"),
      learning_objectives |-> Val(input_data.learning_objectives),
      content_sections |-> Val(Get(input_data, "content_sections", Some(<< >>))),
      num_questions |-> Get(input_data, "num_questions", DefaultNumQuestions),
      question_types |-> << "multiple_choice" >>,
      difficulty |-> "medium" ]

\* the attributes line 141 looks for
QuestionAttributes == { "question", "options", "correct_answer", "explanation" }

\* the items the capability can return as questions: two questions, and an
\* object that has no explanation
ReturnedQuestionItems ==
    { [ question |-> << "q1" >>, options |-> << "A", "B", "C" >>, correct_answer |-> 0,
        explanation |-> << "because" >> ],
      [ question |-> << "q2" >>, options |-> << "A", "B", "C" >>, correct_answer |-> 2,
        explanation |-> << "since" >> ],
      [ question |-> << "q3" >>, options |-> << "A", "B", "C" >>, correct_answer |-> 1 ] }

\* what the capability can return to the quiz creator
QuizResults ==
    [ questions : UNION { [ 1..n -> ReturnedQuestionItems ] : n \in 0..MaxQuestionsReturned },
      assessment_criteria : { << >> } ]

\* line 141
HasAttributes(q) == QuestionAttributes \subseteq DOMAIN q

\* lines 136-152: the questions kept, in the order returned
ProcessedQuestions(questions) == SelectSeq(questions, HasAttributes)

\* lines 137-152: the answer key, under the positions enumerate() counts from 0
AnswerKey(questions) ==
    [ i \in { k - 1 : k \in { n \in 1..Len(questions) : HasAttributes(questions[n]) } } |->
        [ correct_answer |-> questions[i + 1].correct_answer,
          explanation |-> questions[i + 1].explanation,
          learning_objectives |-> << >> ] ]

\* a QuizCreatorOutput whose questions have no minimum length
QuizCreatorOutputAccepted_NoMinimum(kwargs) ==
    Len(kwargs.questions) <= QuizMaxQuestions

\* QuizCreatorOutput(...), lines 35-50
QuizCreatorOutputAccepted(kwargs) ==
    InRange(Len(kwargs.questions), QuizMinQuestions, QuizMaxQuestions)

\* lines 135-158 on the result the capability returned
QuizCreatorOutput(returned) ==
    LET kwargs == [ questions |-> ProcessedQuestions(returned.questions),
                    answer_key |-> AnswerKey(returned.questions),
                    assessment_criteria |-> returned.assessment_criteria ]
    IN  IF QuizCreatorOutputAccepted(kwargs)
        THEN NodeReturns(kwargs)
        ELSE NodeRaises(<< "validation error for ", "QuizCreatorOutput" >>, FALSE)

\* one call of the capability by the quiz creator, and what it returned
QuizCall(input_data, returned) ==
    [ schema |-> OutputModel("create_quiz"), kwargs |-> QuizLlmInput(input_data),
      returned |-> returned ]

\* everything a process call of the quiz creator can do
QuizCreatorOutcomes(input_data) ==
    IF ~QuizCreatorInputAccepted(input_data)
    THEN { ProcessResult(NodeRaises(<< "validation error for the input of ", "create_quiz" >>,
                                    FALSE), << >>) }
    ELSE { ProcessResult(NodeRaises(text, TRUE), << QuizCall(input_data, None) >>) :
             text \in ErrorTexts }
         \cup { ProcessResult(QuizCreatorOutput(returned),
                              << QuizCall(input_data, Some(returned)) >>) :
                  returned \in QuizResults }

(***************************************************************************)
(* ai_agents/lesson_content: the topic validator, the objectives, body and *)
(* examples agents.  Each process validates the input dictionary with the  *)
(* agent's Input schema, builds a dictionary from the fields of the        *)
(* validated model and hands it to BaseLessonAgent.process, which calls    *)
(* generate_structured once and returns its result.                        *)
(***************************************************************************)
ModelBackedStages ==
    { "validate_topic", "generate_objectives", "generate_content", "generate_examples" }

\* example_generator.py ExampleGeneratorInput.num_examples: Field(2, ge=1, le=5)
NumExamplesMin == 1
NumExamplesMax == 5
DefaultNumExamples == 2

\* an objective dictionary without key_concept
PartialObjectiveDicts == << [ description |-> << "objective" >> ] >>

\* the input dictionaries the agents are called with
StageInputs(node) ==
    CASE node = "validate_topic" ->
            { Without(d, absent) :
                d \in [ topic : { << "Python" >> },
                        target_audience : { "advanced" },
                        context : Contexts ],
                absent \in { { }, { "topic" }, { "target_audience", "context" } } }
      [] node = "generate_objectives" ->
            { Without(d, absent) :
                d \in [ topic : { << "Python" >> },
                        target_audience : { "advanced" },
                        scope : { << "basics" >> },
                        prerequisites : { << >>, << "algebra" >> } ],
                absent \in { { }, { "scope" }, { "target_audience", "prerequisites" } } }
      [] node = "generate_content" ->
            { Without(d, absent) :
                d \in [ topic : { << "Python" >> },
                        target_audience : { "advanced" },
                        learning_objectives :
                            { Some(ObjectiveDicts(1)), Some(PartialObjectiveDicts) },
                        scope : { << "basics" >> },
                        key_terms : { << "loop" >> } ],
                absent \in { { }, { "learning_objectives" },
                             { "target_audience", "key_terms" } } }
      [] node = "generate_examples" ->
            { Without(d, absent) :
                d \in [ topic : { << "Python" >> },
                        target_audience : { "advanced" },
                        learning_objectives :
                            { Some(ObjectiveDicts(1)), Some(PartialObjectiveDicts) },
                        content_sections : { Some(SectionDicts(1)) },
                        example_types : { << "analogy" >> },
                        num_examples : { NumExamplesMin, NumExamplesMax + 1 } ],
                absent \in { { }, { "topic" },
                             { "target_audience", "content_sections", "example_types",
                               "num_examples" } } }

\* the value of key f of an input dictionary
Supplied(input_data, f) ==
    IF f \in OptionalKeys THEN Val(input_data[f]) ELSE input_data[f]

\* XInput(**input_data) of the four agents: InputAccepted, the LearningObjective
\* items of the body agent, the range of num_examples
StageInputAccepted(node, input_data) ==
    /\ InputAccepted(node, input_data)
    /\ node = "generate_content" =>
          \A i \in 1..Len(Val(input_data.learning_objectives)) :
             { "description", "key_concept" }
                 \subseteq DOMAIN Val(input_data.learning_objectives)[i]
    /\ (node = "generate_examples" /\ "num_examples" \in DOMAIN input_data) =>
          InRange(input_data.num_examples, NumExamplesMin, NumExamplesMax)

\* example_generator.py validate_learning_objectives, lines 91-103
ValidateLearningObjectives(v) ==
    [ i \in 1..Len(v) |-> [ description |-> Get(v[i], "description", NoText),
                            key_concept |-> Get(v[i], "key_concept", NoText) ] ]

\* the defaults of the Input schemas
FieldDefault(f) ==
    CASE f = "target_audience" -> "beginner"
      [] f = "context" -> NoText
      [] f = "num_examples" -> DefaultNumExamples
      [] OTHER -> << >>                                  \* default_factory=list

\* the model XInput(**input_data) builds: every field of the schema, a default
\* where the dictionary has no such key
ValidatedInput(node, input_data) ==
    [ f \in InputFields(node) |->
        IF f \notin DOMAIN input_data THEN FieldDefault(f)
        ELSE IF node = "generate_examples" /\ f = "learning_objectives"
        THEN ValidateLearningObjectives(Supplied(input_data, f))
        ELSE Supplied(input_data, f) ]

\* a process that hands the model's fields on without the audience
LlmInput_OmitsAudience(node, input_model) ==
    [ f \in DOMAIN input_model \ { "target_audience" } |-> input_model[f] ]

\* the dictionary each process builds from its input_model for super().process
LlmInput(node, input_model) ==
    CASE node = "validate_topic" ->
            [ topic |-> input_model.topic,
              target_audience |-> input_model.target_audience,
              context |-> input_model.context ]
      [] node = "generate_objectives" ->
            [ topic |-> input_model.topic,
              target_audience |-> input_model.target_audience,
              scope |-> input_model.scope,
              prerequisites |-> input_model.prerequisites ]
      [] node = "generate_content" ->
            [ topic |-> input_model.topic,
              target_audience |-> input_model.target_audience,
              learning_objectives |->
                  [ i \in 1..Len(input_model.learning_objectives) |->
                      [ description |-> input_model.learning_objectives[i].description,
                        key_concept |-> input_model.learning_objectives[i].key_concept ] ],
              scope |-> input_model.scope,
              key_terms |-> input_model.key_terms ]
      [] node = "generate_examples" ->
            [ topic |-> input_model.topic,
              target_audience |-> input_model.target_audience,
              learning_objectives |-> input_model.learning_objectives,
              content_sections |-> input_model.content_sections,
              example_types |-> input_model.example_types,
              num_examples |-> input_model.num_examples ]

\* BaseLessonAgent.process: generate_structured(output_model=self.output_model,
\* ..., **input_data), and what it returned (None when it raised)
StageCall(node, input_data, returned) ==
    [ schema |-> OutputModel(node),
      kwargs |-> LlmInput(node, ValidatedInput(node, input_data)),
      returned |-> returned ]

\* everything a process call of one of the four agents can do when the
\* capability answers with one of `results`
StageOutcomes(node, input_data, results) ==
    IF ~StageInputAccepted(node, input_data)
    THEN { ProcessResult(NodeRaises(<< "validation error for the input of ", node >>, FALSE),
                         << >>) }
    ELSE { ProcessResult(NodeRaises(text, TRUE), << StageCall(node, input_data, None) >>) :
             text \in ErrorTexts }
         \cup { ProcessResult(NodeReturns(out), << StageCall(node, input_data, Some(out)) >>) :
                  out \in results }

\* what the capability answers an agent that is called on its own
AgentResults(node) ==
    { [ f \in OutputFields(node) |-> v ] : v \in { << "v1" >>, << "v2" >> } }

\* everything a process call of the agent behind `node` can do
ProcessOutcomes(node, input_data) ==
    IF node = "assemble_lesson"
    THEN AssemblerOutcomes(input_data)
    ELSE IF node = "create_quiz"
    THEN QuizCreatorOutcomes(input_data)
    ELSE StageOutcomes(node, input_data, CapabilityOutputs(node))

LessonInit ==
    /\ kind = "lesson"
    /\ pc = LessonEntryPoint
    /\ topic \in Topics
    /\ \E audience \in Audiences, ctx \in Contexts :
          wstate = InitialWorkflowState(topic, audience, ctx)
    /\ trace = << >>
    /\ course_structure = None
    /\ current_module = None
    /\ current_lesson = None
    /\ validation_errors = << >>
    /\ is_complete = FALSE
    /\ raised = NoText
    /\ capFailure = NoText
    /\ result = Pending
    /\ response = NotSent
    /\ genLog = << >>
    /\ reviewLog = << >>
    /\ verdicts = << >>
    /\ candidate = NoCandidate
    /\ built = NotBuilt
    /\ llmCalls = << >>
    /\ runs = << >>
    /\ outputs = << >>

LessonStep ==
    /\ kind = "lesson"
    /\ pc \notin { "END", "raised" }
    /\ \E r \in ProcessOutcomes(pc, wstate) :
          /\ RunLessonNode(r.outcome)
          /\ llmCalls' = llmCalls \o r.calls
          /\ outputs' = Append(outputs, r.outcome)
    /\ UNCHANGED << runs, kind, topic, result, response, courseVars, entityVars >>

\* a generate_lesson that returns final_state.get("lesson") unchecked
GenerateLessonOutcome_Unchecked(graph_pc, graph_raised, final_state) ==
    IF graph_pc = "raised"
    THEN RaiseError(<< "Failed to generate lesson", ": " >> \o graph_raised)
    ELSE [ kind |-> "return", value |-> final_state.lesson, msg |-> NoText ]

\* generate_lesson, lines 154-163: what the call returns or raises once the graph run is over
GenerateLessonOutcome(graph_pc, graph_raised, final_state) ==
    IF graph_pc = "raised"
    THEN RaiseError(<< "Failed to generate lesson", ": " >> \o graph_raised)
    ELSE IF ~Truthy(final_state.lesson) \/ ~Truthy(Val(final_state.lesson))
    THEN RaiseError(<< "Failed to generate lesson", ": ", "Failed to generate lesson content" >>)
    ELSE Return(Val(final_state.lesson))

GenerateLesson ==
    /\ kind = "lesson"
    /\ pc \in { "END", "raised" }
    /\ result = Pending
    /\ result' = GenerateLessonOutcome(pc, raised, wstate)
    /\ UNCHANGED << runs, kind, pc, topic, raised, capFailure, response,
                    courseVars, lessonVars, entityVars, agentVars >>

(***************************************************************************)
(* interfaces/api/routes/lessons.py generate_lesson.                       *)
(***************************************************************************)
\* _map_lesson_to_response, lines 53-84
MapLessonToResponse(lesson) ==
    [ topic |-> lesson.topic,
      difficulty |-> lesson.difficulty,
      learning_objectives |-> lesson.learning_objectives,
      sections |-> lesson.content_sections,
      examples |-> lesson.examples,
      quiz_questions |-> lesson.quiz_questions,
      summary |-> lesson.summary,
      estimated_duration_minutes |-> lesson.estimated_duration_minutes ]

LessonResponse(outcome) ==
    IF outcome.kind = "return"
    THEN [ sent |-> TRUE, status |-> 200, success |-> TRUE, detail |-> NoText,
           error |-> NoText, payload |-> Some(MapLessonToResponse(Val(outcome.value))) ]
    ELSE [ sent |-> TRUE, status |-> 500, success |-> FALSE,
           detail |-> << "Failed to generate lesson", ": " >> \o outcome.msg,
           error |-> NoText, payload |-> None ]

RespondLesson ==
    /\ kind = "lesson"
    /\ result # Pending
    /\ response = NotSent
    /\ response' = LessonResponse(result)
    /\ UNCHANGED << runs, kind, pc, topic, raised, capFailure, result,
                    courseVars, lessonVars, entityVars, agentVars >>

(***************************************************************************)
(* main.py: the routers that the application includes, and what a client   *)
(* of the application gets for a request to a handler of a router.         *)
(***************************************************************************)
\* the router that holds the handler of a request of kind k
RouterOf(k) == IF k = "course" THEN "courses" ELSE "lessons"

\* lines 33-34
MountedRouters == { "health", "courses" }

\* the framework's answer to a request that matches no route
NotFound ==
    [ sent |-> TRUE, status |-> 404, success |-> FALSE, detail |-> << "Not Found" >>,
      error |-> NoText, payload |-> None ]

\* what the application answers, with handler_response what the handler answers
AppResponse(k, handler_response) ==
    IF RouterOf(k) \in MountedRouters THEN handler_response ELSE NotFound

(***************************************************************************)
(* The lesson graph with its nodes patched, as the unit tests of the       *)
(* workflow patch them: a patched node fails, or returns the value the     *)
(* test fixture holds under the node's key of the state.                   *)
(***************************************************************************)
StubKey(node) ==
    CASE node = "validate_topic" -> "validated_topic"
      [] node = "generate_objectives" -> "learning_objectives"
      [] node = "generate_content" -> "content_sections"
      [] node = "generate_examples" -> "examples"
      [] node = "create_quiz" -> "quiz_questions"
      [] node = "assemble_lesson" -> "lesson"

StubSections == << [ heading |-> "Introduction" ], [ heading |-> "Basics" ] >>

StubValue(node) ==
    CASE node = "validate_topic" ->
            [ refined_topic |-> << "Introduction to Python Programming" >>, is_valid |-> TRUE ]
      [] node = "generate_objectives" ->
            [ objectives |-> << "Learn Python syntax", "Write simple programs" >>,
              difficulty |-> "beginner" ]
      [] node = "generate_content" ->
            [ sections |-> StubSections, estimated_duration_minutes |-> 45 ]
      [] node = "generate_examples" -> [ examples |-> << "Hello World" >> ]
      [] node = "create_quiz" -> [ questions |-> << "What is the correct syntax?" >> ]
      [] node = "assemble_lesson" ->
            [ topic |-> << "Introduction to Python Programming" >>,
              difficulty |-> "beginner",
              learning_objectives |-> << "Learn Python syntax", "Write simple programs" >>,
              content_sections |-> StubSections,
              examples |-> << "Hello World" >>,
              quiz_questions |-> << "What is the correct syntax?" >>,
              estimated_duration_minutes |-> 45 ]

\* the state updates a patched node can return; the last node may also leave the
\* lesson out, or return an empty one
StubUpdates(node) ==
    { [ k \in { StubKey(node) } |-> Some(StubValue(node)) ] }
    \cup IF node = "assemble_lesson"
         THEN { [ k \in { } |-> None ], [ k \in { "lesson" } |-> Some(<< >>) ] }
         ELSE { }

StubOutcomes(node) ==
    { NodeRaises(text, TRUE) : text \in ErrorTexts }
    \cup { NodeReturns(update) : update \in StubUpdates(node) }

StubLessonStep ==
    /\ kind = "lesson"
    /\ pc \notin { "END", "raised" }
    /\ \E outcome \in StubOutcomes(pc) : RunLessonNode(outcome)
    /\ UNCHANGED << runs, kind, topic, result, response, courseVars, entityVars, agentVars >>

(***************************************************************************)
(* Construction of domain entities on its own.                             *)
(***************************************************************************)
EntityInit ==
    /\ kind = "entity"
    /\ \/ pc = "QuizQuestion" /\ candidate \in QuizQuestionArguments
       \/ pc = "LessonContent" /\ candidate \in LessonContentArguments
    /\ built = NotBuilt
    /\ llmCalls = << >>
    /\ runs = << >>
    /\ outputs = << >>
    /\ topic = NoText
    /\ wstate = InitialWorkflowState(NoText, "beginner", None)
    /\ trace = << >>
    /\ course_structure = None
    /\ current_module = None
    /\ current_lesson = None
    /\ validation_errors = << >>
    /\ is_complete = FALSE
    /\ raised = NoText
    /\ capFailure = NoText
    /\ result = Pending
    /\ response = NotSent
    /\ genLog = << >>
    /\ reviewLog = << >>
    /\ verdicts = << >>

ConstructQuizQuestion ==
    /\ kind = "entity"
    /\ pc = "QuizQuestion"
    /\ ~built.done
    /\ built' = QuizQuestion(candidate)
    /\ UNCHANGED << runs, kind, pc, topic, raised, capFailure, result, response, candidate,
                    courseVars, lessonVars, agentVars >>

ConstructLessonContent ==
    /\ kind = "entity"
    /\ pc = "LessonContent"
    /\ ~built.done
    /\ built' = LessonContent(candidate)
    /\ UNCHANGED << runs, kind, pc, topic, raised, capFailure, result, response, candidate,
                    courseVars, lessonVars, agentVars >>

(***************************************************************************)
(* An agent's process method on its own, called twice with the same input. *)
(***************************************************************************)
ProcessRuns == 2

AgentInit ==
    /\ kind = "agent"
    /\ \/ pc = "assemble_lesson" /\ candidate \in AssemblerInputs
       \/ pc = "create_quiz" /\ candidate \in QuizCreatorInputs
       \/ pc \in ModelBackedStages /\ candidate \in StageInputs(pc)
    /\ built = NotBuilt
    /\ llmCalls = << >>
    /\ runs = << >>
    /\ outputs = << >>
    /\ topic = NoText
    /\ wstate = InitialWorkflowState(NoText, "beginner", None)
    /\ trace = << >>
    /\ course_structure = None
    /\ current_module = None
    /\ current_lesson = None
    /\ validation_errors = << >>
    /\ is_complete = FALSE
    /\ raised = NoText
    /\ capFailure = NoText
    /\ result = Pending
    /\ response = NotSent
    /\ genLog = << >>
    /\ reviewLog = << >>
    /\ verdicts = << >>

Process ==
    /\ kind = "agent"
    /\ Len(outputs) < ProcessRuns
    /\ \E r \in IF pc \in ModelBackedStages
                THEN StageOutcomes(pc, candidate, AgentResults(pc))
                ELSE ProcessOutcomes(pc, candidate) :
          /\ outputs' = Append(outputs, r.outcome)
          /\ llmCalls' = llmCalls \o r.calls
    /\ UNCHANGED << runs, kind, pc, topic, raised, capFailure, result, response,
                    courseVars, lessonVars, entityVars >>

(***************************************************************************)
(* Two requests served concurrently.  Every request builds its own         *)
(* workflow object and its own initial state (execute line 27, workflow.py *)
(* lines 76-86, lessons.py lines 116-126); the event loop switches between *)
(* the runs where a node awaits the generation capability, so a run moves  *)
(* by one node at a time.  A run is the record of its pipeline state and   *)
(* of the answers the capability gave it.                                  *)
(***************************************************************************)
\* the plans the capability answers plan_course with in the concurrent runs
ConcurrentPlans ==
    { << [ title |-> << "A" >>, description |-> << "d" >>,
           learning_objectives |-> << "o1" >>, num_lessons |-> 2 ],
         [ title |-> << "B" >>, description |-> << "d" >>,
           learning_objectives |-> << "o1" >>, num_lessons |-> 1 ] >>,
      << [ title |-> << "A" >>, description |-> << "d" >>,
           learning_objectives |-> << "o1" >>, num_lessons |-> 1 ] >> }

\* what the capability did when a course node called it (or was not called)
NoAnswer == [ failed |-> FALSE, text |-> NoText, value |-> << >> ]
Failure(text) == [ failed |-> TRUE, text |-> text, value |-> << >> ]
Answer(v) == [ failed |-> FALSE, text |-> NoText, value |-> v ]

\* workflow.py lines 76-83 and lesson_content_workflow generate_lesson
InitialRun(k, t, audience, ctx) ==
    [ kind |-> k,
      pc |-> IF k = "course" THEN "plan_course" ELSE LessonEntryPoint,
      topic |-> t,
      course_structure |-> None, current_module |-> None, current_lesson |-> None,
      validation_errors |-> << >>, is_complete |-> FALSE,
      wstate |-> InitialWorkflowState(t, audience, ctx), trace |-> << >>,
      raised |-> NoText, answers |-> << >> ]

\* what the capability can answer the node that run state st is at
AnswersFor(st) ==
    IF st.kind = "lesson" THEN ProcessOutcomes(st.pc, st.wstate)
    ELSE IF st.pc = "plan_course"
    THEN IF ~Truthy(st.topic) THEN { NoAnswer }
         ELSE { Failure(text) : text \in ErrorTexts }
              \cup { Answer(p) : p \in ConcurrentPlans }
    ELSE IF st.pc = "generate_content"
    THEN IF ~Truthy(st.course_structure) THEN { NoAnswer }
         ELSE { Failure(text) : text \in ErrorTexts }
              \cup { Answer(c) : c \in GeneratedContents }
    ELSE IF ~Truthy(st.course_structure) \/ ~Truthy(st.current_lesson) THEN { NoAnswer }
         ELSE { Failure(text) : text \in ErrorTexts }
              \cup { Answer(f) : f \in ReviewFeedbacks }

\* agents.py lines 156-168, as the new values of the cursor and of is_complete
NextCursor(course, m, ml, complete) ==
    LET li == LessonIndex(course, m, ml)
        mi == ModuleIndex(course, m)
    IN  IF li < Len(course.modules[m].lessons)
        THEN [ current_module |-> Some(m), current_lesson |-> Some(<< m, li + 1 >>),
               is_complete |-> complete ]
        ELSE IF mi < Len(course.modules)
        THEN [ current_module |-> Some(mi + 1),
               current_lesson |->
                   IF Truthy(course.modules[mi + 1].lessons)
                   THEN Some(<< mi + 1, 1 >>) ELSE None,
               is_complete |-> complete ]
        ELSE [ current_module |-> Some(m), current_lesson |-> Some(ml),
               is_complete |-> TRUE ]

\* a reviewer that writes its feedback into the summary of a lesson it rejects
ReviewedLesson_Rewritten(lesson, feedback) ==
    IF feedback.is_approved THEN lesson ELSE [ lesson EXCEPT !.summary = feedback.feedback ]

\* agents.py lines 203-224: the reviewer reads the lesson and leaves it as it is
ReviewedLesson(lesson, feedback) == lesson

\* the course node that run state st is at, run with the answer a
ApplyCourse(st, a) ==
    IF a.failed THEN [ st EXCEPT !.pc = "raised", !.raised = a.text ]
    ELSE IF st.pc = "plan_course"
    THEN IF ~Truthy(st.topic)
         THEN [ st EXCEPT !.pc = "raised",
                          !.raised = << "Topic is required for planning" >> ]
         ELSE [ st EXCEPT !.course_structure = Some(PlannedCourse(st.topic, a.value)),
                          !.pc = "generate_content" ]
    ELSE IF st.pc = "generate_content"
    THEN IF ~Truthy(st.course_structure)
         THEN [ st EXCEPT !.pc = "raised",
                          !.raised = << "Course structure is required for content generation" >> ]
         ELSE LET course == Val(st.course_structure)
                  m == IF Truthy(st.current_module) THEN Val(st.current_module) ELSE 1
                  ml == IF Truthy(st.current_lesson)
                        THEN Val(st.current_lesson) ELSE << m, 1 >>
                  filled == [ course EXCEPT
                                !.modules[ml[1]].lessons[ml[2]] =
                                    FillLesson(course.modules[ml[1]].lessons[ml[2]], a.value) ]
                  cursor == NextCursor(filled, m, ml, st.is_complete)
              IN  [ st EXCEPT !.course_structure = Some(filled),
                              !.current_module = cursor.current_module,
                              !.current_lesson = cursor.current_lesson,
                              !.is_complete = cursor.is_complete,
                              !.pc = ShouldReview(cursor.current_lesson) ]
    ELSE IF ~Truthy(st.course_structure)
    THEN [ st EXCEPT !.pc = "raised",
                     !.raised = << "Course structure is required for review" >> ]
    ELSE IF ~Truthy(st.current_lesson)
    THEN [ st EXCEPT !.pc = ShouldContinue(st.is_complete) ]
    ELSE LET ml == Val(st.current_lesson)
             course == Val(st.course_structure)
             lesson == course.modules[ml[1]].lessons[ml[2]]
         IN  [ st EXCEPT !.validation_errors =
                             RecordReview(st.validation_errors, lesson, a.value),
                         !.course_structure =
                             Some([ course EXCEPT !.modules[ml[1]].lessons[ml[2]] =
                                                      ReviewedLesson(lesson, a.value) ]),
                         !.pc = ShouldContinue(st.is_complete) ]

\* the lesson node that run state st is at, with r what its process call did
ApplyLesson(st, r) ==
    IF r.outcome.raised
    THEN [ st EXCEPT !.trace = Append(st.trace, st.pc), !.pc = "raised",
                     !.raised = r.outcome.text ]
    ELSE [ st EXCEPT !.trace = Append(st.trace, st.pc), !.pc = LessonEdge(st.pc),
                     !.wstate = MergeUpdate(st.wstate, r.outcome.update) ]

\* one node of a run, and the answer it got kept with the run
Apply(st, a) ==
    LET next == IF st.kind = "course" THEN ApplyCourse(st, a) ELSE ApplyLesson(st, a)
    IN  [ next EXCEPT !.answers = Append(st.answers, a) ]

\* a runner whose state dictionaries all hold the one validation_errors list
StateOf_Shared(rs, i) == [ rs[i] EXCEPT !.validation_errors = rs[1].validation_errors ]

\* the state dictionary the runner hands to the nodes of run i
StateOf(rs, i) == rs[i]

Runs == { 1, 2 }

ConcurrentInit ==
    /\ kind = "concurrent"
    /\ pc = "serving"
    /\ \E k \in { "course", "lesson" } :
          runs \in [ Runs -> { InitialRun(k, t, "beginner", ctx) :
                                 t \in Topics,
                                 ctx \in IF k = "course" THEN { None } ELSE Contexts } ]
    /\ topic = NoText
    /\ course_structure = None
    /\ current_module = None
    /\ current_lesson = None
    /\ validation_errors = << >>
    /\ is_complete = FALSE
    /\ raised = NoText
    /\ capFailure = NoText
    /\ result = Pending
    /\ response = NotSent
    /\ genLog = << >>
    /\ reviewLog = << >>
    /\ verdicts = << >>
    /\ wstate = InitialWorkflowState(NoText, "beginner", None)
    /\ trace = << >>
    /\ candidate = NoCandidate
    /\ built = NotBuilt
    /\ llmCalls = << >>
    /\ outputs = << >>

\* one node of run i, between two switches of the event loop
RunStep(i) ==
    /\ kind = "concurrent"
    /\ runs[i].pc \notin { "END", "raised" }
    /\ \E a \in AnswersFor(StateOf(runs, i)) :
          runs' = [ runs EXCEPT ![i] = Apply(StateOf(runs, i), a) ]
    /\ UNCHANGED << kind, pc, topic, raised, capFailure, result, response,
                    courseVars, lessonVars, entityVars, agentVars >>

ConcurrentStep == \E i \in Runs : RunStep(i)

(***************************************************************************)
(* The service: one request, a course or a lesson, served to its response. *)
(***************************************************************************)
Init == CourseInit \/ LessonInit

Next ==
    \/ PlanCourse
    \/ GenerateContent
    \/ ReviewContent
    \/ Execute
    \/ RespondCourse
    \/ LessonStep
    \/ GenerateLesson
    \/ RespondLesson

Spec == Init /\ [][Next]_vars

\* the lesson workflow around patched nodes
NextGraph ==
    \/ StubLessonStep
    \/ GenerateLesson

SpecGraph == LessonInit /\ [][NextGraph]_vars

\* the course use case: the graph run, or its final state as handed to execute
NextUseCase ==
    \/ PlanCourse
    \/ GenerateContent
    \/ ReviewContent
    \/ Execute
    \/ RespondCourse

SpecUseCase == (CourseInit \/ UseCaseInit) /\ [][NextUseCase]_vars

\* the course agents' process methods, called on any state
NextStages ==
    \/ PlanCourse
    \/ GenerateContent
    \/ ReviewContent

SpecStages == StageInit /\ [][NextStages]_vars

\* two requests served concurrently
NextConcurrent == ConcurrentStep

SpecConcurrent == ConcurrentInit /\ [][NextConcurrent]_vars

\* the agents' process methods
NextAgents == Process

SpecAgents == AgentInit /\ [][NextAgents]_vars

\* the domain constructors
NextEntities ==
    \/ ConstructQuizQuestion
    \/ ConstructLessonContent

SpecEntities == EntityInit /\ [][NextEntities]_vars

(***************************************************************************)
(* Properties of the course run.                                           *)
(***************************************************************************)
RECURSIVE CursorOrder(_, _)
\* the lessons of modules m.. in row-major order, as <<module, lesson>> positions
CursorOrder(modules, m) ==
    IF m > Len(modules) THEN << >>
    ELSE [ l \in 1..Len(modules[m].lessons) |-> << m, l >> ] \o CursorOrder(modules, m + 1)

CourseLessons == CursorOrder(Val(course_structure).modules, 1)

IsPrefix(s, t) == Len(s) <= Len(t) /\ \A i \in 1..Len(s) : s[i] = t[i]

Rejections == Cardinality({ i \in 1..Len(verdicts) : ~verdicts[i] })

\* C1: successive generate_content invocations fill the lessons in row-major order,
\* each exactly once, and is_complete is true exactly from the invocation that
\* fills the last lesson of the last module on.
C1_RowMajorFill ==
    Truthy(course_structure) =>
        /\ IsPrefix(genLog, CourseLessons)
        /\ is_complete <=> (genLog = CourseLessons)

\* C2: a course run reaches the terminal state after generate_content has run
\* exactly as many times as the course has lessons: it never runs more often, and
\* the run that has ended ran it that often.
C2_OneGenerationPerLesson ==
    Truthy(course_structure) =>
        /\ Len(genLog) <= Len(CourseLessons)
        /\ pc = "END" => Len(genLog) = Len(CourseLessons)

\* C3: every review_content invocation evaluates the lesson filled by the
\* generate_content invocation right before it.
C3_ReviewsJustGenerated ==
    \A i \in 1..Len(reviewLog) : i <= Len(genLog) /\ reviewLog[i] = genLog[i]

\* C4: review_content leaves the course structure, the cursor and is_complete
\* unchanged; it appends exactly one message to validation_errors when the
\* reviewer does not approve and none when it approves, so validation_errors
\* only grows and its length is the number of rejections so far.
C4_ReviewFrame ==
    /\ [](Len(validation_errors) = Rejections)
    /\ [][ /\ IsPrefix(validation_errors, validation_errors')
           /\ Len(validation_errors') <= Len(validation_errors) + 1
           /\ pc = "review_content" =>
                /\ course_structure' = course_structure
                /\ current_module' = current_module
                /\ current_lesson' = current_lesson
                /\ is_complete' = is_complete
                /\ Len(verdicts') = Len(verdicts) + 1 =>
                     Len(validation_errors') =
                        Len(validation_errors) + (IF verdicts'[Len(verdicts')] THEN 0 ELSE 1)
         ]_vars

C4_Witness ==
    /\ Len(verdicts) = 2 /\ ~verdicts[1] /\ verdicts[2]
    /\ Len(validation_errors) = 1

WrapText == IF kind = "course" THEN "Failed to generate course" ELSE "Failed to generate lesson"

\* C6: when the generation capability has failed in a run, the pipeline call
\* raises; it returns no value, and its message is the failure text wrapped
\* once: it starts with the wrapping text, holds it once, and contains the
\* text the capability failed with.
C6_CapabilityFailureWrapped ==
    (Truthy(capFailure) /\ result # Pending) =>
        /\ result.kind = "raise"
        /\ result.value = None
        /\ Head(result.msg) = WrapText
        /\ Cardinality({ i \in 1..Len(result.msg) : result.msg[i] = WrapText }) = 1
        /\ Contains(result.msg, capFailure)

C6_Witness ==
    /\ kind = "course"
    /\ Len(genLog) >= 1
    /\ Truthy(capFailure)
    /\ result.kind = "raise"

\* C7 (SpecGraph): when the graph has finished and its final state holds no
\* lesson, or an empty one, generate_lesson raises an error whose message starts
\* with "Failed to generate lesson" and returns no value.
C7_NoLessonFails ==
    ( /\ kind = "lesson" /\ pc = "END" /\ result # Pending
      /\ ~Truthy(wstate.lesson) \/ ~Truthy(Val(wstate.lesson)) ) =>
        /\ result.kind = "raise"
        /\ result.value = None
        /\ IsPrefix(<< "Failed to generate lesson" >>, result.msg)

C7_Witness ==
    /\ pc = "END"
    /\ wstate.lesson = Some(<< >>)
    /\ result.kind = "raise"

\* msg ends with text
EndsWith(msg, text) ==
    /\ Len(text) <= Len(msg)
    /\ SubSeq(msg, Len(msg) - Len(text) + 1, Len(msg)) = text

C9_AssembledTopicAndSections ==
    (kind = "lesson" /\ Truthy(wstate.context) /\ ~Truthy(capFailure) /\ result # Pending) =>
        /\ result.kind = "return"
        /\ Val(result.value).topic = topic
        /\ Len(Val(result.value).content_sections) =
              Len(Val(wstate.content_sections).sections)

\* C10 (SpecEntities): every QuizQuestion that construction accepts has 3 to 5
\* options and a correct_answer that indexes one of them, and construction with
\* a correct_answer of len(options) or more yields no instance.
C10_AnswerIndexesOptions ==
    pc = "QuizQuestion" =>
    /\ (built.done /\ Truthy(built.instance)) =>
          /\ 0 <= Val(built.instance).correct_answer
          /\ Val(built.instance).correct_answer < Len(Val(built.instance).options)
          /\ QuizMinOptions <= Len(Val(built.instance).options)
          /\ Len(Val(built.instance).options) <= QuizMaxOptions
    /\ ( /\ built.done /\ Truthy(candidate.options) /\ Truthy(candidate.correct_answer)
         /\ Val(candidate.correct_answer) >= Len(Val(candidate.options)) ) =>
          ~Truthy(built.instance)

\* C11 (SpecEntities): every LessonContent that construction accepts has a
\* duration of 5 to 120 minutes, 1 to 5 learning objectives, 1 to 3 examples and
\* 1 to 5 quiz questions, and construction with one of them out of these bounds
\* yields no instance.
C11_LessonContentBounds ==
    (pc = "LessonContent" /\ built.done) =>
        LET inBounds ==
              /\ Truthy(candidate.estimated_duration_minutes)
              /\ 5 <= Val(candidate.estimated_duration_minutes)
              /\ Val(candidate.estimated_duration_minutes) <= 120
              /\ Len(Val(candidate.learning_objectives)) \in 1..5
              /\ Len(Val(candidate.examples)) \in 1..3
              /\ Len(Val(candidate.quiz_questions)) \in 1..5
        IN  /\ ~inBounds => ~Truthy(built.instance)
            /\ Truthy(built.instance) =>
                  /\ inBounds
                  /\ Val(built.instance).estimated_duration_minutes =
                        Val(candidate.estimated_duration_minutes)
                  /\ Val(built.instance).learning_objectives = Val(candidate.learning_objectives)
                  /\ Val(built.instance).examples = Val(candidate.examples)
                  /\ Val(built.instance).quiz_questions = Val(candidate.quiz_questions)

C11_Witness ==
    /\ pc = "LessonContent"
    /\ Truthy(built.instance)
    /\ Val(built.instance).estimated_duration_minutes = 120
    /\ Len(Val(built.instance).examples) = 3
    /\ Len(Val(built.instance).quiz_questions) = 5

CallsOf(node) == SelectSeq(llmCalls, LAMBDA call : call.schema = OutputModel(node))

\* C13: a lesson run that was given a context and in which the generation
\* capability answered every call runs all its stages; the body stage receives
\* the objectives stage's objectives as learning_objectives, and the examples
\* and quiz stages receive the body stage's sections as content_sections.
C13_StageInputsFromPriorOutputs ==
    ( /\ kind = "lesson" /\ Truthy(wstate.context) /\ ~Truthy(capFailure)
      /\ pc \in { "END", "raised" } ) =>
        /\ pc = "END"
        /\ trace = LessonNodes
        /\ \A i \in 1..Len(CallsOf("generate_content")) :
              CallsOf("generate_content")[i].kwargs.learning_objectives =
                  outputs[2].update.objectives
        /\ \A node \in { "generate_examples", "create_quiz" } :
              \A i \in 1..Len(CallsOf(node)) :
                 CallsOf(node)[i].kwargs.content_sections = outputs[3].update.sections

\* C14: in a lesson run every stage runs at most once and calls the generation
\* capability at most once, and once a stage has failed no stage runs and no
\* call of the capability is made any more.
C14_NoRetryNoCallAfterFailure ==
    /\ [](kind = "lesson" =>
            \A i \in 1..Len(LessonNodes) :
               /\ Len(CallsOf(LessonNodes[i])) <= 1
               /\ Len(SelectSeq(trace, LAMBDA node : node = LessonNodes[i])) <= 1)
    /\ [][(kind = "lesson" /\ pc = "raised") => (llmCalls' = llmCalls /\ trace' = trace)]_vars

C14_Witness ==
    /\ kind = "lesson"
    /\ pc = "raised"
    /\ Truthy(capFailure)
    /\ Len(llmCalls) = 1
    /\ response.sent

(***************************************************************************)
(* Properties of concurrent runs.                                          *)
(***************************************************************************)
RECURSIVE Replay(_, _)
\* the run state reached from st by a run on its own that gets the answers
Replay(st, answers) ==
    IF answers = << >> THEN st
    ELSE Replay(Apply(st, Head(answers)), Tail(answers))

\* what the pipeline call of a run that is over returns or raises
RunResult(st) ==
    IF st.kind = "course"
    THEN ExecuteOutcome(st.pc, st.raised, st.course_structure)
    ELSE GenerateLessonOutcome(st.pc, st.raised, st.wstate)

\* run i on its own, given the answers run i got
AloneRun(i) ==
    Replay(InitialRun(runs[i].kind, runs[i].topic, runs[i].wstate.target_audience,
                      runs[i].wstate.context),
           runs[i].answers)

LessonFields == { "title", "summary", "objectives", "key_points" }

\* C16 (SpecUseCase): a returned course has the requested topic and the
\* modules and lessons of the final course structure, as many and in the
\* same order, each lesson with its title, summary, objectives and
\* key_points; when the final structure has no modules execute raises.
C16_ReturnsFinalStructure ==
    (kind = "course" /\ result # Pending) =>
        /\ result.kind = "return" =>
              LET course == Val(course_structure)
                  out == Val(result.value)
              IN  /\ out.topic = topic
                  /\ Len(out.modules) = Len(course.modules)
                  /\ \A i \in 1..Len(course.modules) :
                        /\ out.modules[i].title = course.modules[i].title
                        /\ Len(out.modules[i].lessons) = Len(course.modules[i].lessons)
                        /\ \A j \in 1..Len(course.modules[i].lessons) :
                              /\ DOMAIN out.modules[i].lessons[j] = LessonFields
                              /\ \A f \in LessonFields :
                                    out.modules[i].lessons[j][f] =
                                        course.modules[i].lessons[j][f]
        /\ (Truthy(course_structure) /\ ~Truthy(Val(course_structure).modules)) =>
              result.kind = "raise"

C16_Witness ==
    /\ kind = "course"
    /\ result # Pending
    /\ result.kind = "return"
    /\ Len(genLog) >= 2
    /\ Len(Val(result.value).modules) = 2
    /\ Val(result.value).modules[1].title # Val(result.value).modules[2].title

(***************************************************************************)
(* Properties of the lesson endpoint.                                      *)
(***************************************************************************)
\* C17: a lesson request with a non-empty topic for which the generation
\* capability answered every call with an output of the stage's schema is
\* answered by the application with status 200 and a lesson that has at
\* least 1 learning objective, at least 3 sections and at least 1 quiz
\* question.
C17_MinimalLessonIs200 ==
    (kind = "lesson" /\ Truthy(topic) /\ ~Truthy(capFailure) /\ response.sent) =>
        LET served == AppResponse(kind, response)
        IN  /\ served.status = 200
            /\ Truthy(served.payload)
            /\ Len(Val(served.payload).learning_objectives) >= 1
            /\ Len(Val(served.payload).sections) >= 3
            /\ Len(Val(served.payload).quiz_questions) >= 1

\* C18: a lesson request with the empty string as topic is answered by the
\* application with status 500, a detail message and no lesson.
C18_EmptyTopicIs500 ==
    (kind = "lesson" /\ ~Truthy(topic) /\ response.sent) =>
        LET served == AppResponse(kind, response)
        IN  /\ served.status = 500
            /\ Truthy(served.detail)
            /\ served.payload = None

(***************************************************************************)
(* Properties of the quiz creator.                                         *)
(***************************************************************************)
\* C19 (SpecAgents): an output that QuizCreatorNode.process returns has at
\* least one question; a first process call to which the capability returned
\* no question, or only questions that lack a required attribute, raises the
\* validation error of QuizCreatorOutput.
C19_NoEmptyQuiz ==
    (kind = "agent" /\ pc = "create_quiz") =>
        /\ \A k \in 1..Len(outputs) :
              ~outputs[k].raised => Len(outputs[k].update.questions) >= 1
        /\ ( /\ Len(outputs) = 1
             /\ Len(llmCalls) = 1
             /\ Truthy(llmCalls[1].returned)
             /\ ProcessedQuestions(Val(llmCalls[1].returned).questions) = << >> ) =>
              /\ outputs[1].raised
              /\ ~outputs[1].capability
              /\ outputs[1].text = << "validation error for ", "QuizCreatorOutput" >>

C19_Witness ==
    /\ kind = "agent"
    /\ pc = "create_quiz"
    /\ Len(outputs) = 1
    /\ Len(llmCalls) = 1
    /\ Truthy(llmCalls[1].returned)
    /\ Len(Val(llmCalls[1].returned).questions) = 2
    /\ ProcessedQuestions(Val(llmCalls[1].returned).questions) = << >>
    /\ outputs[1].raised

\* C20 (Spec): every generate_content invocation of a course run that returns
\* leaves the current_lesson cursor set, and the run goes on to
\* review_content, never back to generate_content.
C20_GenerateThenReview ==
    [][(kind = "course" /\ pc = "generate_content" /\ pc' # "raised") =>
          (Truthy(current_lesson') /\ pc' = "review_content")]_vars

C20_Witness ==
    /\ kind = "course"
    /\ pc = "review_content"
    /\ Len(genLog) >= 2
    /\ current_module = Some(2)
    /\ Truthy(current_lesson)

(***************************************************************************)
(* Properties of the reviewer's influence.                                 *)
(***************************************************************************)
\* the answer is a review feedback
IsVerdict(a) == ~a.failed /\ DOMAIN a.value = { "is_approved", "feedback", "suggestions" }

\* two answer sequences that differ at most in the verdicts of the reviews
SameButVerdicts(a1, a2) ==
    /\ Len(a1) = Len(a2)
    /\ \A k \in 1..Len(a1) : a1[k] = a2[k] \/ (IsVerdict(a1[k]) /\ IsVerdict(a2[k]))

\* C21 (SpecConcurrent): two course runs on the same topic that got the same
\* plan and the same lesson contents, and differ at most in the reviewer's
\* verdicts, are at the same node with the same cursor, the same completion
\* flag and the same course structure after every step: they differ only in
\* validation_errors.
C21_CourseIndependentOfVerdicts ==
    ( /\ kind = "concurrent"
      /\ runs[1].kind = "course" /\ runs[2].kind = "course"
      /\ runs[1].topic = runs[2].topic
      /\ SameButVerdicts(runs[1].answers, runs[2].answers) ) =>
        /\ runs[1].pc = runs[2].pc
        /\ runs[1].course_structure = runs[2].course_structure
        /\ runs[1].current_module = runs[2].current_module
        /\ runs[1].current_lesson = runs[2].current_lesson
        /\ runs[1].is_complete = runs[2].is_complete
        /\ runs[1].raised = runs[2].raised
        /\ RunResult(runs[1]) = RunResult(runs[2])

C21_Witness ==
    /\ kind = "concurrent"
    /\ runs[1].kind = "course" /\ runs[2].kind = "course"
    /\ runs[1].pc = "END" /\ runs[2].pc = "END"
    /\ SameButVerdicts(runs[1].answers, runs[2].answers)
    /\ Len(runs[1].answers) >= 7
    /\ runs[1].validation_errors # runs[2].validation_errors
    /\ runs[1].course_structure = runs[2].course_structure

(***************************************************************************)
(* Properties of the course loop.                                          *)
(***************************************************************************)
\* the review_content invocations whose subject was the lesson at ml
ReviewsOf(ml) == { r \in 1..Len(reviewLog) : reviewLog[r] = ml }

\* C22: in a course run that has reached the terminal state every lesson of
\* the course was the subject of exactly one review_content invocation, and
\* generate_content had filled the lesson before that invocation.
C22_EachLessonReviewedOnce ==
    (kind = "course" /\ pc = "END") =>
        \A k \in 1..Len(CourseLessons) :
            /\ Cardinality(ReviewsOf(CourseLessons[k])) = 1
            /\ \A r \in ReviewsOf(CourseLessons[k]) :
                  \E g \in 1..Len(genLog) : genLog[g] = CourseLessons[k] /\ g <= r

\* the lessons that generate_content has filled
Filled == { genLog[g] : g \in 1..Len(genLog) }

\* C23 (Spec): whenever is_complete is true in a course run, generate_content
\* has filled every lesson of every module; and is_complete, once true, stays
\* true.
C23_CompleteMeansAllFilled ==
    /\ []((kind = "course" /\ is_complete) =>
            /\ Truthy(course_structure)
            /\ \A k \in 1..Len(CourseLessons) : CourseLessons[k] \in Filled)
    /\ [][(kind = "course" /\ is_complete) => is_complete']_vars

C23_Witness ==
    /\ kind = "course"
    /\ is_complete
    /\ pc = "END"
    /\ Len(Val(course_structure).modules) = 2
    /\ Len(CourseLessons) >= 3

\* the lesson that a generate_content invocation in this state fills
UnderCursor ==
    IF Truthy(current_lesson) THEN Val(current_lesson)
    ELSE << IF Truthy(current_module) THEN Val(current_module) ELSE 1, 1 >>

\* C24 (Spec): a generate_content invocation leaves the topic,
\* validation_errors, the number and order of modules and of the lessons of
\* each module, every title and description, and every lesson other than the
\* one under the cursor unchanged; of the lesson under the cursor it changes
\* at most summary, objectives and key_points.
C24_GenerateFrame ==
    [][(kind = "course" /\ pc = "generate_content" /\ Truthy(course_structure)) =>
          LET old == Val(course_structure)
              new == Val(course_structure')
          IN  /\ topic' = topic
              /\ validation_errors' = validation_errors
              /\ Truthy(course_structure')
              /\ new.topic = old.topic
              /\ Len(new.modules) = Len(old.modules)
              /\ \A i \in 1..Len(old.modules) :
                    /\ new.modules[i].title = old.modules[i].title
                    /\ new.modules[i].description = old.modules[i].description
                    /\ Len(new.modules[i].lessons) = Len(old.modules[i].lessons)
                    /\ \A j \in 1..Len(old.modules[i].lessons) :
                          /\ new.modules[i].lessons[j].title = old.modules[i].lessons[j].title
                          /\ << i, j >> # UnderCursor =>
                                new.modules[i].lessons[j] = old.modules[i].lessons[j]]_vars

C24_Witness ==
    /\ kind = "course"
    /\ pc = "review_content"
    /\ Len(genLog) = 2
    /\ Truthy(course_structure)
    /\ Len(Val(course_structure).modules) = 2
    /\ Len(Val(course_structure).modules[1].lessons) = 2
    /\ Val(course_structure).modules[1].lessons[1].summary = << "s1" >>
    /\ Val(course_structure).modules[1].lessons[2].summary = << "s2" >>

(***************************************************************************)
(* Properties of the course stages.                                        *)
(***************************************************************************)
\* C25 (Spec): a plan_course invocation that succeeds leaves a course
\* structure with the requested topic and one module per module of the plan
\* the capability returned, in plan order, with the plan's title and
\* description and with num_lessons lessons titled 'Lesson 1' to
\* 'Lesson num_lessons'; it leaves the cursor and is_complete unchanged.
C25_PlanMaterialized ==
    [][(kind = "course" /\ pc = "plan_course" /\ pc' = "generate_content") =>
          LET plan == Val(llmCalls'[Len(llmCalls')].returned)
              course == Val(course_structure')
          IN  /\ Len(llmCalls') = Len(llmCalls) + 1
              /\ course.topic = topic
              /\ Len(course.modules) = Len(plan)
              /\ \A i \in 1..Len(plan) :
                    /\ course.modules[i].title = plan[i].title
                    /\ course.modules[i].description = plan[i].description
                    /\ Len(course.modules[i].lessons) = plan[i].num_lessons
                    /\ \A j \in 1..plan[i].num_lessons :
                          course.modules[i].lessons[j].title = << "Lesson ", ToString(j) >>
              /\ current_module' = current_module
              /\ current_lesson' = current_lesson
              /\ is_complete' = is_complete]_vars

C25_Witness ==
    /\ kind = "course"
    /\ pc = "generate_content"
    /\ genLog = << >>
    /\ Truthy(course_structure)
    /\ Len(Val(course_structure).modules) = 2
    /\ Len(Val(course_structure).modules[1].lessons) = 1
    /\ Len(Val(course_structure).modules[2].lessons) = 3
    /\ Val(course_structure).modules[2].lessons[3].title = << "Lesson ", "3" >>

\* the stage at pc is invoked on a state that lacks what the stage requires
LacksPriorState ==
    \/ pc = "plan_course" /\ ~Truthy(topic)
    \/ pc \in { "generate_content", "review_content" } /\ ~Truthy(course_structure)

\* C26 (SpecStages): a course stage invoked on a state without its required
\* prior state raises an error, makes no call to the generation capability and
\* leaves the topic, the course structure, the cursor, is_complete and
\* validation_errors unchanged.
C26_PreconditionFailure ==
    [][(kind = "course" /\ LacksPriorState) =>
          /\ pc' = "raised"
          /\ Truthy(raised')
          /\ llmCalls' = llmCalls
          /\ capFailure' = capFailure
          /\ topic' = topic
          /\ courseVars' = courseVars]_vars

C26_Witness ==
    /\ kind = "course"
    /\ pc = "raised"
    /\ raised = << "Course structure is required for review" >>
    /\ llmCalls = << >>
    /\ ~Truthy(course_structure)

\* C27: in every output of the quiz creator each question has question,
\* options, correct_answer and explanation, and answer_key has exactly one
\* entry per question of the output, under the question's position (counted
\* from 0) in the output's questions, with that question's correct_answer
\* and explanation.
C27_AnswerKeyMatchesQuestions ==
    (kind = "agent" /\ pc = "create_quiz") =>
        \A k \in 1..Len(outputs) :
            ~outputs[k].raised =>
                LET out == outputs[k].update
                IN  /\ \A n \in 1..Len(out.questions) : HasAttributes(out.questions[n])
                    /\ DOMAIN out.answer_key = { n - 1 : n \in 1..Len(out.questions) }
                    /\ \A n \in 1..Len(out.questions) :
                          /\ out.answer_key[n - 1].correct_answer =
                                 out.questions[n].correct_answer
                          /\ out.answer_key[n - 1].explanation =
                                 out.questions[n].explanation

(***************************************************************************)
(* Properties of the assembler's inputs.                                   *)
(***************************************************************************)
\* the bounds of the Output schemas of the stages before the assembler
ObjectivesOutMin == 3
ObjectivesOutMax == 5
ExamplesOutMin == 1
ExamplesOutMax == 5
BodyMinDuration == 10
BodyMaxDuration == 120

\* the assembler input holds outputs that satisfy the schemas of their stages
FromValidStageOutputs(input_data) ==
    /\ { "topic", "target_audience", "learning_objectives", "content_sections",
         "examples", "quiz_questions" } \subseteq DOMAIN input_data
    /\ input_data.target_audience \in Audiences
    /\ InRange(Len(Val(input_data.learning_objectives)), ObjectivesOutMin, ObjectivesOutMax)
    /\ Len(Val(input_data.content_sections)) >= SectionsOutMin
    /\ InRange(Len(Val(input_data.examples)), ExamplesOutMin, ExamplesOutMax)
    /\ InRange(Len(Val(input_data.quiz_questions)), QuizMinQuestions, QuizMaxQuestions)
    /\ \A n \in 1..Len(Val(input_data.quiz_questions)) :
          HasAttributes(Val(input_data.quiz_questions)[n])
    /\ "metadata" \in DOMAIN input_data =>
          \/ input_data.metadata = << >>
          \/ InRange(input_data.metadata.estimated_duration_minutes,
                     BodyMinDuration, BodyMaxDuration)

\* C28: an assembler input made of schema-valid outputs of the objectives,
\* body, examples and quiz stages is assembled into a LessonContent: no
\* process call on it fails.
C28_ValidStageOutputsAssemble ==
    (kind = "agent" /\ pc = "assemble_lesson" /\ FromValidStageOutputs(candidate)) =>
        \A k \in 1..Len(outputs) : ~outputs[k].raised

\* C29: every input that LessonAssemblerInput accepts is assembled: no process
\* call of the assembler on it fails, also when its examples or its
\* quiz_questions are empty or left to their defaults.
C29_AcceptedInputAssembles ==
    (kind = "agent" /\ pc = "assemble_lesson" /\ InputAccepted("assemble_lesson", candidate)) =>
        \A k \in 1..Len(outputs) : ~outputs[k].raised

\* C30 (SpecAgents): for the topic validator, the objectives, body and examples
\* agents, a process call that returns has called the generation capability
\* exactly once, with the agent's own Output schema as output_model and the
\* fields of the validated input as keyword arguments, and returns the very
\* value the capability returned; on an input dictionary that lacks a required
\* field every process call fails and the capability is never called.
C30_OneCallPerSuccessfulProcess ==
    (kind = "agent" /\ pc \in ModelBackedStages) =>
        /\ ~(InputRequired(pc) \subseteq DOMAIN candidate) =>
              /\ llmCalls = << >>
              /\ \A k \in 1..Len(outputs) : outputs[k].raised
        /\ \A k \in 1..Len(outputs) :
              ~outputs[k].raised =>
                 /\ Len(llmCalls) = Len(outputs)
                 /\ llmCalls[k].schema = OutputModel(pc)
                 /\ llmCalls[k].kwargs = ValidatedInput(pc, candidate)
                 /\ llmCalls[k].returned = Some(outputs[k].update)

C30_Witness ==
    /\ kind = "agent"
    /\ pc = "generate_examples"
    /\ "target_audience" \notin DOMAIN candidate
    /\ Len(outputs) = ProcessRuns
    /\ ~outputs[ProcessRuns].raised
    /\ Len(llmCalls) = ProcessRuns

=============================================================================
